---- MODULE Spec2Model ----
(***************************************************************************)
(* pyconfig-lite: the Config class of src/config.py.                       *)
(*                                                                         *)
(* A Config is built from a configuration file and the process             *)
(* environment, and then queried and changed through get, set,             *)
(* __getitem__ and get_all.  Text (paths, variable names, raw environment  *)
(* values) is a sequence of one-character strings so that splitting,       *)
(* lower-casing, replacing and JSON scanning are computed, not assumed.    *)
(* Spec, SpecOverlay and SpecEnv keep the tree as a value: there, mapping   *)
(* values passed to set are values of their own and no mapping object is   *)
(* stored at two places of the tree.  SpecHeap keeps the dict objects and  *)
(* the references to them, for what depends on the identity of objects.    *)
(***************************************************************************)
EXTENDS Integers, Sequences, FiniteSets, TLC

VARIABLES
    pc,           \* "new", "overlay" (inside the loop of _apply_env_overrides), "ready", "failed"
    config_file,  \* the file named by self.config_file, as the file system holds it
    env_prefix,   \* self.env_prefix; the empty text stands for None (both are falsy)
    environ,      \* os.environ: variable name -> raw value
    pending,      \* names the loop of _apply_env_overrides has not reached yet
    config_data,  \* self.config_data
    error,        \* the exception __init__ raised, "none" when it raised nothing
    setcalls,     \* the calls _apply_env_overrides made to _set_nested_value, in order
    last,         \* the last call on the constructed object, with its outcome
    nsets,        \* number of set calls made on the constructed object
    heap,         \* the dict objects of the process, by address (SpecHeap)
    held          \* the addresses self.config_data and the caller's names refer to

vars == <<pc, config_file, env_prefix, environ, pending, config_data, error,
          setcalls, last, nsets, heap, held>>

(***************************************************************************)
(* Bounds of the model.                                                    *)
(***************************************************************************)
MaxSets == 2
MaxEnv == 2
\* the nested arrays and objects json.loads can enter before the interpreter's
\* recursion limit is reached (sys.getrecursionlimit() less the depth of the
\* caller; 1000 by default)
MaxDepth == 3

(***************************************************************************)
(* ConfigValue: what json.load / json.loads produce and what set stores.   *)
(* A float is cls, m, e: the finite value m * 10^e with m not a multiple   *)
(* of ten (0 is 0, 0), or one of the three non-finite floats.              *)
(***************************************************************************)
None == [kind |-> "null"]
VBool(b) == [kind |-> "bool", val |-> b]
VInt(n) == [kind |-> "int", val |-> n]
VFloat(m, e) == [kind |-> "float", val |-> <<"fin", m, e>>]
NaN == [kind |-> "float", val |-> <<"nan", 0, 0>>]
Infinity == [kind |-> "float", val |-> <<"inf", 0, 0>>]
NegInfinity == [kind |-> "float", val |-> <<"-inf", 0, 0>>]
VStr(s) == [kind |-> "str", val |-> s]
VList(xs) == [kind |-> "seq", val |-> xs]
VDict(f) == [kind |-> "map", val |-> f]
EmptyDict == VDict(<<>>)

\* isinstance(x, dict)
IsDict(x) == x.kind = "map"

\* d[k] = v on a dict whose items are the function f
DictSet(f, k, v) == [x \in (DOMAIN f) \cup {k} |-> IF x = k THEN v ELSE f[x]]

(***************************************************************************)
(* Text operations of the str type used by config.py.                      *)
(***************************************************************************)
\* s[i:] (0-based i) of Python
Drop(s, i) == SubSeq(s, i + 1, Len(s))

\* s.startswith(p)
StartsWith(s, p) == Len(p) <= Len(s) /\ SubSeq(s, 1, Len(p)) = p

LowerChar(c) ==
    CASE c = "A" -> "a" [] c = "B" -> "b" [] c = "C" -> "c" [] c = "D" -> "d"
      [] c = "E" -> "e" [] c = "F" -> "f" [] c = "G" -> "g" [] c = "H" -> "h"
      [] c = "I" -> "i" [] c = "J" -> "j" [] c = "K" -> "k" [] c = "L" -> "l"
      [] c = "M" -> "m" [] c = "N" -> "n" [] c = "O" -> "o" [] c = "P" -> "p"
      [] c = "Q" -> "q" [] c = "R" -> "r" [] c = "S" -> "s" [] c = "T" -> "t"
      [] c = "U" -> "u" [] c = "V" -> "v" [] c = "W" -> "w" [] c = "X" -> "x"
      [] c = "Y" -> "y" [] c = "Z" -> "z" [] OTHER -> c

\* s.lower()
Lower(s) == [i \in 1..Len(s) |-> LowerChar(s[i])]

\* s.replace(old, new): non-overlapping occurrences, left to right
RECURSIVE Replace(_, _, _)
Replace(s, old, new) ==
    IF Len(s) < Len(old) THEN s
    ELSE IF SubSeq(s, 1, Len(old)) = old
         THEN new \o Replace(Drop(s, Len(old)), old, new)
         ELSE <<s[1]>> \o Replace(Tail(s), old, new)

\* s.split('.'): never empty, keeps empty segments
RECURSIVE Split(_)
Split(s) ==
    IF \A i \in 1..Len(s) : s[i] # "."
    THEN <<s>>
    ELSE LET i == CHOOSE j \in 1..Len(s) :
                      s[j] = "." /\ \A k \in 1..(j - 1) : s[k] # "."
         IN  <<SubSeq(s, 1, i - 1)>> \o Split(Drop(s, i))

(***************************************************************************)
(* json.loads, as config.py calls it on a raw environment value: the       *)
(* scanner of the json module (whitespace, scan_once, "Extra data").       *)
(* A position is the 1-based index of the next character to read.  Text in *)
(* the model holds no backslash and no control character, so a JSON string *)
(* runs to its closing quote.                                              *)
(***************************************************************************)
Whitespace == {" ", "\t", "\n", "\r"}
Digits == {"0", "1", "2", "3", "4", "5", "6", "7", "8", "9"}

DigitVal(c) ==
    CASE c = "0" -> 0 [] c = "1" -> 1 [] c = "2" -> 2 [] c = "3" -> 3
      [] c = "4" -> 4 [] c = "5" -> 5 [] c = "6" -> 6 [] c = "7" -> 7
      [] c = "8" -> 8 [] c = "9" -> 9

\* s[i-1:j-1] of Python, clipped to the text
Slice(s, i, j) == SubSeq(s, i, IF j - 1 > Len(s) THEN Len(s) ELSE j - 1)

\* the character at position i, "" past the end (s[i:i+1] of Python)
CharAt(s, i) == IF i >= 1 /\ i <= Len(s) THEN s[i] ELSE ""

RECURSIVE SkipWS(_, _)
SkipWS(s, i) == IF CharAt(s, i) \in Whitespace THEN SkipWS(s, i + 1) ELSE i

RECURSIVE DigitsEnd(_, _)
DigitsEnd(s, i) == IF CharAt(s, i) \in Digits THEN DigitsEnd(s, i + 1) ELSE i

\* int() of the digits at positions i .. j-1
RECURSIVE ToNat(_, _, _)
ToNat(s, i, j) == IF j <= i THEN 0 ELSE ToNat(s, i, j - 1) * 10 + DigitVal(s[j - 1])

RECURSIVE Pow10(_)
Pow10(n) == IF n <= 0 THEN 1 ELSE 10 * Pow10(n - 1)

RECURSIVE FloatOf(_, _)
FloatOf(m, e) ==
    IF m = 0 THEN VFloat(0, 0)
    ELSE IF m % 10 = 0 THEN FloatOf(m \div 10, e + 1)
    ELSE VFloat(m, e)

\* what a scan gives: a value and the position after it, or the exception
\* it raised
ParseFail == [ok |-> FALSE, val |-> None, end |-> 0, err |-> "JSONDecodeError"]
ParseDeep == [ok |-> FALSE, val |-> None, end |-> 0, err |-> "RecursionError"]
ParseOk(v, e) == [ok |-> TRUE, val |-> v, end |-> e, err |-> "none"]

\* NUMBER_RE.match(s, idx): (-?(?:0|[1-9]\d*))(\.\d+)?([eE][-+]?\d+)?
\* The three groups are matched one after the other; each stage hands the
\* next one what it has read.

\* group 3 from position fracEnd, and the value: int(integer) when there is
\* neither fraction nor exponent, else the float mant * 10^(exponent - nfrac)
NumberExp(s, mant, nfrac, hasFrac, fracEnd) ==
    LET e0 == IF CharAt(s, fracEnd + 1) \in {"+", "-"} THEN fracEnd + 2 ELSE fracEnd + 1
    IN  IF CharAt(s, fracEnd) \in {"e", "E"} /\ CharAt(s, e0) \in Digits
        THEN ParseOk(FloatOf(mant, (IF CharAt(s, fracEnd + 1) = "-" THEN -1 ELSE 1)
                                   * ToNat(s, e0, DigitsEnd(s, e0)) - nfrac),
                     DigitsEnd(s, e0))
        ELSE ParseOk(IF hasFrac THEN FloatOf(mant, 0 - nfrac) ELSE VInt(mant), fracEnd)

\* group 2 from position intEnd
NumberFrac(s, sign, intv, intEnd) ==
    LET hasFrac == CharAt(s, intEnd) = "." /\ CharAt(s, intEnd + 1) \in Digits
        fracEnd == IF hasFrac THEN DigitsEnd(s, intEnd + 1) ELSE intEnd
        nfrac   == IF hasFrac THEN fracEnd - (intEnd + 1) ELSE 0
    IN  NumberExp(s, sign * (intv * Pow10(nfrac) + ToNat(s, intEnd + 1, fracEnd)),
                  nfrac, hasFrac, fracEnd)

\* group 1 from position i0, after the optional sign
NumberInt(s, sign, i0) ==
    IF CharAt(s, i0) \notin Digits THEN ParseFail
    ELSE LET intEnd == IF CharAt(s, i0) = "0" THEN i0 + 1 ELSE DigitsEnd(s, i0)
         IN  NumberFrac(s, sign, ToNat(s, i0, intEnd), intEnd)

MatchNumber(s, idx) ==
    NumberInt(s, IF CharAt(s, idx) = "-" THEN -1 ELSE 1,
              IF CharAt(s, idx) = "-" THEN idx + 1 ELSE idx)

\* scanstring(s, idx): idx is the position after the opening quote
ScanString(s, idx) ==
    IF \A j \in idx..Len(s) : s[j] # "\""
    THEN ParseFail
    ELSE LET j == CHOOSE k \in idx..Len(s) :
                      s[k] = "\"" /\ \A h \in idx..(k - 1) : s[h] # "\""
         IN  ParseOk(SubSeq(s, idx, j - 1), j + 1)

\* a JSON string as a value
StringValue(r) == IF r.ok THEN ParseOk(VStr(r.val), r.end) ELSE ParseFail

\* the constants scan_once tries after the number: NaN, Infinity, -Infinity
ScanNonFinite(s, idx) ==
    IF Slice(s, idx, idx + 3) = <<"N", "a", "N">>
    THEN ParseOk(NaN, idx + 3)
    ELSE IF Slice(s, idx, idx + 8) = <<"I", "n", "f", "i", "n", "i", "t", "y">>
    THEN ParseOk(Infinity, idx + 8)
    ELSE IF Slice(s, idx, idx + 9) = <<"-", "I", "n", "f", "i", "n", "i", "t", "y">>
    THEN ParseOk(NegInfinity, idx + 9)
    ELSE ParseFail

\* the number when NUMBER_RE matched, else what the later branches give
NumberOr(num, other) == IF num.ok THEN num ELSE other

\* depth is the number of arrays and objects the scan is inside of
RECURSIVE ScanOnce(_, _, _)
RECURSIVE ArrayItems(_, _, _, _)
RECURSIVE ObjectItems(_, _, _, _)

\* JSONArray: after an item, j is the position of the next non-blank character
ArrayNext(s, acc, j, depth) ==
    IF CharAt(s, j) = "]" THEN ParseOk(VList(acc), j + 1)
    ELSE IF CharAt(s, j) # "," THEN ParseFail
    ELSE ArrayItems(s, SkipWS(s, j + 1), acc, depth)

ArrayAfterItem(s, acc, r, depth) ==
    IF ~r.ok THEN r ELSE ArrayNext(s, Append(acc, r.val), SkipWS(s, r.end), depth)

\* JSONArray: the item at position i and what follows
ArrayItems(s, i, acc, depth) == ArrayAfterItem(s, acc, ScanOnce(s, i, depth), depth)

\* JSONArray: i is the position of the first non-blank character after '['
ParseArray(s, i, depth) ==
    IF CharAt(s, i) = "]" THEN ParseOk(VList(<<>>), i + 1)
    ELSE ArrayItems(s, i, <<>>, depth)

\* JSONObject: after a pair, m is the position of the next non-blank
\* character, and n that of the one after the comma
ObjectNextKey(s, f, n, depth) ==
    IF CharAt(s, n) # "\"" THEN ParseFail ELSE ObjectItems(s, n + 1, f, depth)

ObjectNext(s, f, m, depth) ==
    IF CharAt(s, m) = "}" THEN ParseOk(VDict(f), m + 1)
    ELSE IF CharAt(s, m) # "," THEN ParseFail
    ELSE ObjectNextKey(s, f, SkipWS(s, m + 1), depth)

ObjectAfterValue(s, f, key, v, depth) ==
    IF ~v.ok THEN v
    ELSE ObjectNext(s, DictSet(f, key, v.val), SkipWS(s, v.end), depth)

ObjectColon(s, f, key, c, depth) ==
    IF CharAt(s, c) # ":" THEN ParseFail
    ELSE ObjectAfterValue(s, f, key, ScanOnce(s, SkipWS(s, c + 1), depth), depth)

ObjectAfterKey(s, f, k, depth) ==
    IF ~k.ok THEN ParseFail ELSE ObjectColon(s, f, k.val, SkipWS(s, k.end), depth)

\* JSONObject: the pair whose key opens before position i, and what follows
ObjectItems(s, i, f, depth) == ObjectAfterKey(s, f, ScanString(s, i), depth)

\* JSONObject: i is the position of the first non-blank character after '{'
ParseObject(s, i, depth) ==
    IF CharAt(s, i) = "}" THEN ParseOk(EmptyDict, i + 1)
    ELSE IF CharAt(s, i) # "\"" THEN ParseFail
    ELSE ObjectItems(s, i + 1, <<>>, depth)

\* scan_once(s, idx) of json.scanner; entering an array or an object is a
\* recursive call of the interpreter, which raises RecursionError at its limit
ScanOnce(s, idx, depth) ==
    LET c == CharAt(s, idx)
    IN  IF c = "" THEN ParseFail
        ELSE IF c = "\"" THEN StringValue(ScanString(s, idx + 1))
        ELSE IF c \in {"{", "["} /\ depth >= MaxDepth THEN ParseDeep
        ELSE IF c = "{" THEN ParseObject(s, SkipWS(s, idx + 1), depth + 1)
        ELSE IF c = "[" THEN ParseArray(s, SkipWS(s, idx + 1), depth + 1)
        ELSE IF c = "n" /\ Slice(s, idx, idx + 4) = <<"n", "u", "l", "l">>
             THEN ParseOk(None, idx + 4)
        ELSE IF c = "t" /\ Slice(s, idx, idx + 4) = <<"t", "r", "u", "e">>
             THEN ParseOk(VBool(TRUE), idx + 4)
        ELSE IF c = "f" /\ Slice(s, idx, idx + 5) = <<"f", "a", "l", "s", "e">>
             THEN ParseOk(VBool(FALSE), idx + 5)
        ELSE NumberOr(MatchNumber(s, idx), ScanNonFinite(s, idx))

\* the end of decode: only whitespace may follow the value ("Extra data")
WholeText(s, r) == IF r.ok /\ SkipWS(s, r.end) # Len(s) + 1 THEN ParseFail ELSE r

\* json.loads(s): ok is FALSE where it raises, err being the exception
JsonLoads(s) == WholeText(s, ScanOnce(s, SkipWS(s, 1), 0))

(***************************************************************************)
(* Config: the tree operations.                                            *)
(***************************************************************************)
\* _set_nested_value without the loop: the value goes under the last segment
\* of the path, in the root
SetKeysFlat(current, keys, value) == DictSet(current, keys[Len(keys)], value)

\* _set_nested_value with "current[key] = {}" done at every step of the loop,
\* whatever current[key] holds
RECURSIVE SetKeysFresh(_, _, _)
SetKeysFresh(current, keys, value) ==
    IF Len(keys) = 1
    THEN DictSet(current, keys[1], value)
    ELSE DictSet(current, Head(keys), VDict(SetKeysFresh(<<>>, Tail(keys), value)))

\* _set_nested_value that leaves a final key alone when the dict already has it
RECURSIVE SetKeysKeep(_, _, _)
SetKeysKeep(current, keys, value) ==
    IF Len(keys) = 1
    THEN (IF keys[1] \in DOMAIN current THEN current ELSE DictSet(current, keys[1], value))
    ELSE LET key   == Head(keys)
             child == IF key \notin DOMAIN current \/ ~IsDict(current[key])
                      THEN <<>>
                      ELSE current[key].val
         IN  DictSet(current, key, VDict(SetKeysKeep(child, Tail(keys), value)))

\* _set_nested_value that keeps what the final key held, in a list with the
\* new value
RECURSIVE SetKeysCollect(_, _, _)
SetKeysCollect(current, keys, value) ==
    IF Len(keys) = 1
    THEN DictSet(current, keys[1],
                 IF keys[1] \in DOMAIN current
                 THEN VList(<<current[keys[1]], value>>)
                 ELSE value)
    ELSE LET key   == Head(keys)
             child == IF key \notin DOMAIN current \/ ~IsDict(current[key])
                      THEN <<>>
                      ELSE current[key].val
         IN  DictSet(current, key, VDict(SetKeysCollect(child, Tail(keys), value)))

\* _set_nested_value that merges a mapping into the mapping the final key
\* holds, as dict.update does
RECURSIVE SetKeysMerge(_, _, _)
SetKeysMerge(current, keys, value) ==
    IF Len(keys) = 1
    THEN DictSet(current, keys[1],
                 IF keys[1] \in DOMAIN current /\ IsDict(current[keys[1]]) /\ IsDict(value)
                 THEN VDict([x \in DOMAIN current[keys[1]].val \cup DOMAIN value.val |->
                                IF x \in DOMAIN value.val
                                THEN value.val[x]
                                ELSE current[keys[1]].val[x]])
                 ELSE value)
    ELSE LET key   == Head(keys)
             child == IF key \notin DOMAIN current \/ ~IsDict(current[key])
                      THEN <<>>
                      ELSE current[key].val
         IN  DictSet(current, key, VDict(SetKeysMerge(child, Tail(keys), value)))

\* the loop and the final assignment of _set_nested_value, on the items of a dict
RECURSIVE SetKeys(_, _, _)
SetKeys(current, keys, value) ==
    IF Len(keys) = 1
    THEN DictSet(current, keys[1], value)
    ELSE LET key   == Head(keys)
             child == IF key \notin DOMAIN current \/ ~IsDict(current[key])
                      THEN <<>>
                      ELSE current[key].val
         IN  DictSet(current, key, VDict(SetKeys(child, Tail(keys), value)))

\* _set_nested_value(key_path, value) on self.config_data = data.  A root
\* that is not a dict takes neither "key in current" nor item assignment with
\* a str key: TypeError, data unchanged.
SetNestedValue(data, key_path, value) ==
    IF IsDict(data)
    THEN [raised |-> "none", data |-> VDict(SetKeys(data.val, Split(key_path), value))]
    ELSE [raised |-> "TypeError", data |-> data]

\* the loop of get with "return None" for "return default"
RECURSIVE WalkNone(_, _, _)
WalkNone(value, keys, default) ==
    IF keys = <<>> THEN value
    ELSE IF IsDict(value) /\ Head(keys) \in DOMAIN value.val
         THEN WalkNone(value.val[Head(keys)], Tail(keys), default)
         ELSE None

\* the loop of get
RECURSIVE Walk(_, _, _)
Walk(value, keys, default) ==
    IF keys = <<>> THEN value
    ELSE IF IsDict(value) /\ Head(keys) \in DOMAIN value.val
         THEN Walk(value.val[Head(keys)], Tail(keys), default)
         ELSE default

\* get(key_path, default)
GetValue(data, key_path, default) == Walk(data, Split(key_path), default)

\* __getitem__(key_path)
GetItemValue(data, key_path) ==
    LET value == GetValue(data, key_path, None)
    IN  IF value = None
        THEN [raised |-> "KeyError", value |-> None]
        ELSE [raised |-> "none", value |-> value]

(***************************************************************************)
(* Config: loading the file.                                               *)
(* A file is exists, ext (os.path.splitext(...)[1]), importable (the       *)
(* module that decodes the format of ext can be imported), wellformed and  *)
(* decoded (what the decoder returns for its content).                     *)
(***************************************************************************)
ExtJson == <<".", "j", "s", "o", "n">>
ExtYaml == <<".", "y", "a", "m", "l">>
ExtYml == <<".", "y", "m", "l">>
ExtToml == <<".", "t", "o", "m", "l">>

NoError == [type |-> "none", msg |-> <<>>]

\* _load_config with the test of os.path.exists made after the extension has
\* been looked at
LoadConfigLate(file) ==
    IF Lower(file.ext) \notin {ExtJson, ExtYaml, ExtYml, ExtToml}
    THEN [raised |-> [type |-> "ValueError",
                      msg  |-> <<"Error loading configuration",
                                 "Unsupported configuration format">>],
          data   |-> EmptyDict]
    ELSE IF ~file.exists
    THEN [raised |-> [type |-> "FileNotFoundError",
                      msg  |-> <<"Configuration file not found">>],
          data   |-> EmptyDict]
    ELSE IF ~file.importable \/ ~file.wellformed
    THEN [raised |-> [type |-> "ValueError",
                      msg  |-> <<"Error loading configuration", "Failed to load">>],
          data   |-> EmptyDict]
    ELSE [raised |-> NoError, data |-> file.decoded]

\* _load_config: every exception raised inside its try block comes out as
\* ValueError("Error loading configuration: ...")
LoadConfig(file) ==
    LET file_ext == Lower(file.ext)
        wrapped(inner) == [raised |-> [type |-> "ValueError",
                                       msg  |-> <<"Error loading configuration">> \o inner],
                           data   |-> EmptyDict]
        loaded == [raised |-> NoError, data |-> file.decoded]
    IN  IF ~file.exists
        THEN [raised |-> [type |-> "FileNotFoundError",
                          msg  |-> <<"Configuration file not found">>],
              data   |-> EmptyDict]
        ELSE IF file_ext \in {ExtYaml, ExtYml}
        THEN IF ~file.importable THEN wrapped(<<"PyYAML is required">>)
             ELSE IF ~file.wellformed THEN wrapped(<<"Failed to parse YAML file">>)
             ELSE loaded
        ELSE IF file_ext = ExtJson
        THEN IF ~file.wellformed THEN wrapped(<<"Failed to parse JSON file">>)
             ELSE loaded
        ELSE IF file_ext = ExtToml
        THEN IF ~file.importable THEN wrapped(<<"toml is required">>)
             ELSE IF ~file.wellformed THEN wrapped(<<"Failed to parse TOML file">>)
             ELSE loaded
        ELSE wrapped(<<"Unsupported configuration format">>)

(***************************************************************************)
(* Config: the environment overlay.                                        *)
(***************************************************************************)
\* the derivation without .replace('__', '.')
DerivePathSingle(config_key) == Replace(Lower(config_key), <<"_">>, <<".">>)

\* the derivation without .replace('_', '.')
DerivePathDouble(config_key) == Replace(Lower(config_key), <<"_", "_">>, <<".">>)

\* config_key.lower().replace('__', '.').replace('_', '.')
DerivePath(config_key) ==
    Replace(Replace(Lower(config_key), <<"_", "_">>, <<".">>), <<"_">>, <<".">>)

\* the "continue" test with the prefix compared whatever the case
SkippedAnyCase(prefix, env_name) ==
    prefix # <<>> /\ ~StartsWith(Lower(env_name), Lower(prefix))

\* the "continue" test of the loop
Skipped(prefix, env_name) == prefix # <<>> /\ ~StartsWith(env_name, prefix)

\* config_key: the name without the prefix
ConfigKey(prefix, env_name) ==
    IF prefix # <<>> THEN Drop(env_name, Len(prefix)) ELSE env_name

\* parsed_value: r is what json.loads(env_value) gave; env_value itself on
\* JSONDecodeError
ValueOrRaw(r, env_value) == IF r.ok THEN r.val ELSE VStr(env_value)

ParsedValue(env_value) == ValueOrRaw(JsonLoads(env_value), env_value)

\* an iteration that does not reach _set_nested_value
NotCalled(data) ==
    [called |-> FALSE, path |-> <<>>, value |-> None, raised |-> "none", data |-> data]

\* an iteration that called _set_nested_value, with what the call gave
Called(config_path, parsed_value, r) ==
    [called |-> TRUE, path |-> config_path, value |-> parsed_value,
     raised |-> r.raised, data |-> r.data]

\* an iteration that json.loads left with an exception other than
\* json.JSONDecodeError: no except clause catches it
Raised(data, err) ==
    [called |-> FALSE, path |-> <<>>, value |-> None, raised |-> err, data |-> data]

\* the try statement and the call of _set_nested_value, r being what
\* json.loads(env_value) gave
TryParse(data, config_path, env_value, r) ==
    IF r.err \notin {"none", "JSONDecodeError"}
    THEN Raised(data, r.err)
    ELSE Called(config_path, ValueOrRaw(r, env_value),
                SetNestedValue(data, config_path, ValueOrRaw(r, env_value)))

\* the loop body without the test "if config_path:"
OverlayPathAlways(data, config_path, env_value) ==
    TryParse(data, config_path, env_value, JsonLoads(env_value))

\* "if config_path:" and its body
OverlayPath(data, config_path, env_value) ==
    IF config_path = <<>>
    THEN NotCalled(data)
    ELSE TryParse(data, config_path, env_value, JsonLoads(env_value))

\* one iteration of the loop of _apply_env_overrides
OverlayEntry(data, prefix, env_name, env_value) ==
    IF Skipped(prefix, env_name)
    THEN NotCalled(data)
    ELSE OverlayPath(data, DerivePath(ConfigKey(prefix, env_name)), env_value)

(***************************************************************************)
(* The texts the model draws its inputs from.                              *)
(***************************************************************************)
K_a == <<"a">>
K_b == <<"b">>
K_c == <<"c">>
K_n == <<"n">>
K_s == <<"s">>
K_app == <<"a", "p", "p">>
K_debug == <<"d", "e", "b", "u", "g">>
K_port == <<"p", "o", "r", "t">>
K_database == <<"d", "a", "t", "a", "b", "a", "s", "e">>
K_host == <<"h", "o", "s", "t">>

P_a == <<"a">>
P_a_b == <<"a", ".", "b">>
P_a_b_c == <<"a", ".", "b", ".", "c">>
P_a__b == <<"a", ".", ".", "b">>
P_empty == <<>>
P_A_b == <<"A", ".", "b">>
P_n == <<"n">>
P_app == <<"a", "p", "p">>
P_app_port == <<"a", "p", "p", ".", "p", "o", "r", "t">>
P_app_debug == <<"a", "p", "p", ".", "d", "e", "b", "u", "g">>
P_database_host == <<"d", "a", "t", "a", "b", "a", "s", "e", ".", "h", "o", "s", "t">>

N_APP_PORT == <<"A", "P", "P", "_", "P", "O", "R", "T">>
N_APP_DEBUG == <<"A", "P", "P", "_", "D", "E", "B", "U", "G">>
N_DATABASE_HOST == <<"D", "A", "T", "A", "B", "A", "S", "E", "_", "H", "O", "S", "T">>
N_DATABASE__HOST == <<"D", "A", "T", "A", "B", "A", "S", "E", "_", "_", "H", "O", "S", "T">>
N_MYAPP_APP_PORT == <<"M", "Y", "A", "P", "P", "_", "A", "P", "P", "_", "P", "O", "R", "T">>
N_myapp_app_port == <<"m", "y", "a", "p", "p", "_", "a", "p", "p", "_", "p", "o", "r", "t">>
N_APP == <<"A", "P", "P">>
N_MYAPP_ == <<"M", "Y", "A", "P", "P", "_">>
N_APP_ == <<"A", "P", "P", "_">>
N_A_B == <<"A", "_", "B">>
N_A___B == <<"A", "_", "_", "_", "B">>
N__A == <<"_", "A">>
\* the name of an entry "=value" of the environment block
N_empty == <<>>
N_SECURITY_SECRET_KEY ==
    <<"S", "E", "C", "U", "R", "I", "T", "Y", "_", "S", "E", "C", "R", "E", "T", "_",
      "K", "E", "Y">>
N_DATABASE_POOL_SIZE ==
    <<"D", "A", "T", "A", "B", "A", "S", "E", "_", "P", "O", "O", "L", "_",
      "S", "I", "Z", "E">>
\* one character that is no ASCII character: U+2102, DOUBLE-STRUCK CAPITAL C,
\* an upper-case letter (category Lu) that str.lower() returns as it is
DoubleStruckC == "U+2102"
N_APP_DoubleStruckC == <<"A", "P", "P", "_", DoubleStruckC>>

R_9000 == <<"9", "0", "0", "0">>
R_8000 == <<"8", "0", "0", "0">>
R_false == <<"f", "a", "l", "s", "e">>
R_true == <<"t", "r", "u", "e">>
R_null == <<"n", "u", "l", "l">>
R_host == <<"d", "b", ".", "e", "x", "a", "m", "p", "l", "e", ".", "c", "o", "m">>
R_list == <<"[", "\"", "a", "\"", ",", "\"", "b", "\"", "]">>
R_obj == <<"{", "\"", "p", "o", "r", "t", "\"", ":", " ", "1", "}">>
R_NaN == <<"N", "a", "N">>
R_float == <<"1", ".", "5">>
R_str == <<"\"", "s", "\"">>
R_badlist == <<"[", "1", ",">>
R_padded == <<" ", "7", " ">>
R_01 == <<"0", "1">>
R_blank == <<>>
R_2 == <<"2">>
R_15 == <<"1", "5">>
R_secret == <<"a", "b", "c", "d", "e", "f">>
R_nested == <<"[", "[", "1", "]", "]">>
\* arrays opened one deeper than json.loads can enter, none of them closed
R_deep == [i \in 1..(MaxDepth + 1) |-> "["]

S_localhost == <<"l", "o", "c", "a", "l", "h", "o", "s", "t">>
S_x == <<"x">>
S_default == <<"d", "e", "f", "a", "u", "l", "t">>

NoPrefix == <<>>
Prefix_MYAPP == <<"M", "Y", "A", "P", "P", "_">>

(***************************************************************************)
(* Files.                                                                  *)
(***************************************************************************)
File(ext, decoded) ==
    [exists |-> TRUE, ext |-> ext, importable |-> TRUE, wellformed |-> TRUE,
     decoded |-> decoded]

\* the tree of {"app": {"debug": true, "port": 8080}, "database": {"host": "localhost"}}
AppTree ==
    VDict((K_app :> VDict((K_debug :> VBool(TRUE)) @@ (K_port :> VInt(8080))))
          @@ (K_database :> VDict(K_host :> VStr(S_localhost))))

\* the tree of {"a": {"b": 1}, "n": null, "s": [1, "x"]}
SmallTree ==
    VDict((K_a :> VDict(K_b :> VInt(1))) @@ (K_n :> None)
          @@ (K_s :> VList(<<VInt(1), VStr(S_x)>>)))

AppFile == File(ExtJson, AppTree)
SmallFile == File(ExtJson, SmallTree)
EmptyFile == File(<<".", "J", "S", "O", "N">>, EmptyDict)
ArrayFile == File(ExtJson, VList(<<VInt(1), VInt(2)>>))
BlankYamlFile == File(ExtYaml, None)
TomlFile == File(ExtToml, SmallTree)
MissingFile == [File(ExtJson, EmptyDict) EXCEPT !.exists = FALSE]
MalformedFile == [File(ExtJson, EmptyDict) EXCEPT !.wellformed = FALSE]
NoYamlFile == [File(ExtYml, EmptyDict) EXCEPT !.importable = FALSE]
TextFile == File(<<".", "t", "x", "t">>, EmptyDict)
\* paths at which there is no file
MissingTextFile == [TextFile EXCEPT !.exists = FALSE]
MissingYamlFile == [NoYamlFile EXCEPT !.exists = FALSE]

(***************************************************************************)
(* Environments: each variable name with the raw values it may carry.      *)
(***************************************************************************)
RawOf(env_name) ==
    CASE env_name = N_APP_PORT       -> {R_9000, R_8000}
      [] env_name = N_APP_DEBUG      -> {R_false, R_01, R_deep}
      [] env_name = N_DATABASE_HOST  -> {R_host}
      [] env_name = N_DATABASE__HOST -> {R_str, R_badlist}
      [] env_name = N_MYAPP_APP_PORT -> {R_9000, R_padded}
      [] env_name = N_myapp_app_port -> {R_true}
      [] env_name = N_APP            -> {R_list, R_obj, R_NaN}
      [] env_name = N_MYAPP_         -> {R_float}
      [] env_name = N_APP_           -> {R_null, R_blank}
      [] env_name = N_A_B            -> {R_2}
      [] env_name = N_A___B          -> {R_true, R_nested}
      [] env_name = N__A             -> {R_2}
      [] env_name = N_empty          -> {R_2}
      [] env_name = N_SECURITY_SECRET_KEY -> {R_secret}
      [] env_name = N_DATABASE_POOL_SIZE  -> {R_15}
      [] env_name = N_APP_DoubleStruckC   -> {R_2}

EnvNames ==
    {N_APP_PORT, N_APP_DEBUG, N_DATABASE_HOST, N_DATABASE__HOST, N_MYAPP_APP_PORT,
     N_myapp_app_port, N_APP, N_MYAPP_, N_APP_, N_A_B, N_A___B, N__A, N_empty,
     N_SECURITY_SECRET_KEY, N_DATABASE_POOL_SIZE, N_APP_DoubleStruckC}

\* the environments that define exactly the names of S
RECURSIVE EnvsOver(_)
EnvsOver(S) ==
    IF S = {} THEN {<<>>}
    ELSE LET n == CHOOSE x \in S : TRUE
         IN  {DictSet(f, n, r) : f \in EnvsOver(S \ {n}), r \in RawOf(n)}

Environs == UNION {EnvsOver(S) : S \in {T \in SUBSET EnvNames : Cardinality(T) <= MaxEnv}}

(***************************************************************************)
(* Inputs of the calls on a constructed object.                            *)
(***************************************************************************)
SetPaths == {P_a, P_a_b, P_a_b_c, P_a__b, P_empty}
SetValues ==
    {None, VBool(TRUE), VInt(1), VFloat(15, -1), VStr(S_x),
     VList(<<VInt(1), VStr(S_x)>>), VDict(K_c :> VInt(1))}
GetPaths == SetPaths \cup {P_A_b, P_n}
Defaults == {None, VStr(S_default)}

(***************************************************************************)
(* The state machine.                                                      *)
(***************************************************************************)
NoCall == [op |-> "none", path |-> <<>>, arg |-> None, result |-> None, raised |-> "none"]

\* no name refers to an object
NoRefs == [self |-> 0, snap |-> 0, d |-> 0]

InitObject ==
    /\ heap = <<>>
    /\ held = NoRefs
    /\ pc = "new"
    /\ pending = {}
    /\ config_data = EmptyDict
    /\ error = NoError
    /\ setcalls = <<>>
    /\ last = NoCall
    /\ nsets = 0

\* Config(config_file) followed by calls on the object
Init ==
    /\ config_file \in {SmallFile, ArrayFile, MissingFile}
    /\ env_prefix = NoPrefix
    /\ environ \in {<<>>, N_A_B :> R_2}
    /\ InitObject

\* Config(config_file, env_prefix) under every environment
InitOverlay ==
    /\ config_file \in {AppFile, SmallFile, EmptyFile, ArrayFile, BlankYamlFile, TomlFile,
                        MissingFile, MalformedFile, NoYamlFile, TextFile,
                        MissingTextFile, MissingYamlFile}
    /\ env_prefix \in {NoPrefix, Prefix_MYAPP}
    /\ environ \in Environs
    /\ InitObject

\* an __init__ that catches what _load_config raises and hands out the
\* object with the empty tree
ConstructLenient ==
    /\ pc = "new"
    /\ LET r == LoadConfig(config_file)
       IN  /\ error' = r.raised
           /\ config_data' = r.data
           /\ pending' = IF r.raised # NoError THEN {} ELSE DOMAIN environ
           /\ pc' = IF pending' = {} THEN "ready" ELSE "overlay"
    /\ UNCHANGED <<config_file, env_prefix, environ, setcalls, last, nsets>>
    /\ UNCHANGED <<heap, held>>

\* __init__ up to the first iteration of the loop of _apply_env_overrides
Construct ==
    /\ pc = "new"
    /\ LET r == LoadConfig(config_file)
       IN  /\ error' = r.raised
           /\ config_data' = r.data
           /\ IF r.raised # NoError
              THEN pc' = "failed" /\ pending' = {}
              ELSE /\ pending' = DOMAIN environ
                   /\ pc' = IF DOMAIN environ = {} THEN "ready" ELSE "overlay"
    /\ UNCHANGED <<config_file, env_prefix, environ, setcalls, last, nsets>>
    /\ UNCHANGED <<heap, held>>

\* the state after the iteration on env_name, r being what the iteration did;
\* __init__ returns after the last one, or raises what json.loads or
\* _set_nested_value raised
OverlayResult(env_name, r) ==
    /\ config_data' = r.data
    /\ pending' = pending \ {env_name}
    /\ setcalls' = IF r.called
                   THEN Append(setcalls, [name |-> env_name, path |-> r.path,
                                          value |-> r.value])
                   ELSE setcalls
    /\ IF r.raised # "none"
       THEN pc' = "failed" /\ error' = [type |-> r.raised, msg |-> <<>>]
       ELSE /\ pc' = IF pending' = {} THEN "ready" ELSE "overlay"
            /\ error' = error

\* one iteration of the loop of _apply_env_overrides, in any order of os.environ
OverlayStep ==
    /\ pc = "overlay"
    /\ \E env_name \in pending :
         OverlayResult(env_name,
                       OverlayEntry(config_data, env_prefix, env_name, environ[env_name]))
    /\ UNCHANGED <<config_file, env_prefix, environ, last, nsets>>
    /\ UNCHANGED <<heap, held>>

\* config.set(key_path, value)
Set ==
    /\ pc = "ready"
    /\ nsets < MaxSets
    /\ \E key_path \in SetPaths, value \in SetValues :
         LET r == SetNestedValue(config_data, key_path, value)
         IN  /\ config_data' = r.data
             /\ last' = [op |-> "set", path |-> key_path, arg |-> value,
                         result |-> None, raised |-> r.raised]
    /\ nsets' = nsets + 1
    /\ UNCHANGED <<pc, config_file, env_prefix, environ, pending, error, setcalls>>
    /\ UNCHANGED <<heap, held>>

\* a get that stores the default under a path it does not find, as
\* dict.setdefault does
GetStoring ==
    /\ pc = "ready"
    /\ \E key_path \in GetPaths, default \in Defaults :
         /\ last' = [op |-> "get", path |-> key_path, arg |-> default,
                     result |-> GetValue(config_data, key_path, default),
                     raised |-> "none"]
         /\ config_data' = IF GetValue(config_data, key_path, [kind |-> "missing"])
                                = [kind |-> "missing"]
                           THEN SetNestedValue(config_data, key_path, default).data
                           ELSE config_data
    /\ UNCHANGED <<pc, config_file, env_prefix, environ, pending, error, setcalls, nsets>>
    /\ UNCHANGED <<heap, held>>

\* config.get(key_path, default)
Get ==
    /\ pc = "ready"
    /\ \E key_path \in GetPaths, default \in Defaults :
         last' = [op |-> "get", path |-> key_path, arg |-> default,
                  result |-> GetValue(config_data, key_path, default), raised |-> "none"]
    /\ UNCHANGED <<pc, config_file, env_prefix, environ, pending, config_data, error,
                   setcalls, nsets>>
    /\ UNCHANGED <<heap, held>>

\* config[key_path]
GetItem ==
    /\ pc = "ready"
    /\ \E key_path \in GetPaths :
         LET r == GetItemValue(config_data, key_path)
         IN  last' = [op |-> "getitem", path |-> key_path, arg |-> None,
                      result |-> r.value, raised |-> r.raised]
    /\ UNCHANGED <<pc, config_file, env_prefix, environ, pending, config_data, error,
                   setcalls, nsets>>
    /\ UNCHANGED <<heap, held>>

\* config.get_all()
GetAll ==
    /\ pc = "ready"
    /\ last' = [op |-> "get_all", path |-> <<>>, arg |-> None,
                result |-> config_data, raised |-> "none"]
    /\ UNCHANGED <<pc, config_file, env_prefix, environ, pending, config_data, error,
                   setcalls, nsets>>
    /\ UNCHANGED <<heap, held>>

Next == Construct \/ OverlayStep \/ Set \/ Get \/ GetItem \/ GetAll

Spec == Init /\ [][Next]_vars

\* construction alone
NextOverlay == Construct \/ OverlayStep

SpecOverlay == InitOverlay /\ [][NextOverlay]_vars

(***************************************************************************)
(* The process changing its environment while it holds a Config.           *)
(***************************************************************************)
LaterNames == {N_A_B, N_APP_PORT}
LaterRaws == {R_9000}

\* os.environ without the variable env_name
Unset(env, env_name) == [x \in (DOMAIN env) \ {env_name} |-> env[x]]

\* a Config that applied the overlay anew whenever a variable is assigned
EnvChangeReapply ==
    /\ pc = "ready"
    /\ \E env_name \in LaterNames :
         \/ \E env_value \in LaterRaws :
                /\ environ' = DictSet(environ, env_name, env_value)
                /\ config_data'
                       = OverlayEntry(config_data, env_prefix, env_name, env_value).data
         \/ /\ env_name \in DOMAIN environ
            /\ environ' = Unset(environ, env_name)
            /\ config_data' = config_data
    /\ UNCHANGED <<pc, config_file, env_prefix, pending, error, setcalls, last, nsets>>
    /\ UNCHANGED <<heap, held>>

\* os.environ[env_name] = env_value or del os.environ[env_name], once the
\* object is constructed
EnvChange ==
    /\ pc = "ready"
    /\ \E env_name \in LaterNames :
         \/ \E env_value \in LaterRaws : environ' = DictSet(environ, env_name, env_value)
         \/ env_name \in DOMAIN environ /\ environ' = Unset(environ, env_name)
    /\ UNCHANGED <<pc, config_file, env_prefix, pending, config_data, error, setcalls,
                   last, nsets>>
    /\ UNCHANGED <<heap, held>>

\* Config(config_file), then calls of set and changes of the environment
InitEnv ==
    /\ config_file = SmallFile
    /\ env_prefix = NoPrefix
    /\ environ \in {<<>>, N_A_B :> R_2}
    /\ InitObject

NextEnv == Construct \/ OverlayStep \/ Set \/ EnvChange

SpecEnv == InitEnv /\ [][NextEnv]_vars

(***************************************************************************)
(* Objects and references.  A dict is an object of the heap, known by its  *)
(* address (its index in heap); the slot of a key holds a value that is    *)
(* not a dict, or the reference to a dict object.  self.config_data, the   *)
(* result of get_all and the dict the caller holds are references.  The    *)
(* caller stores the dict it holds under top-level keys only, so no object *)
(* comes to contain itself.                                                *)
(***************************************************************************)
Ref(a) == [kind |-> "map", addr |-> a]

\* the objects json.load or a dict display build for a value: one new dict
\* object for every mapping in it.  The result is the heap and the slot.
RECURSIVE Alloc(_, _)
RECURSIVE AllocItems(_, _, _, _)
AllocItem(a, k, r, f, ks) ==
    AllocItems([r.heap EXCEPT ![a] = DictSet(@, k, r.slot)], a, f, ks \ {k})

AllocKey(h, a, f, ks, k) == AllocItem(a, k, Alloc(h, f[k]), f, ks)

AllocItems(h, a, f, ks) ==
    IF ks = {} THEN [heap |-> h, slot |-> Ref(a)]
    ELSE AllocKey(h, a, f, ks, CHOOSE k \in ks : TRUE)

Alloc(h, v) ==
    IF IsDict(v)
    THEN AllocItems(Append(h, <<>>), Len(h) + 1, v.val, DOMAIN v.val)
    ELSE [heap |-> h, slot |-> v]

\* the value of a slot: the tree that is read through its references
RECURSIVE View(_, _)
View(h, slot) ==
    IF IsDict(slot)
    THEN VDict([k \in DOMAIN h[slot.addr] |-> View(h, h[slot.addr][k])])
    ELSE slot

\* the loop and the final assignment of _set_nested_value, on the object at
\* address current: "current[key] = {}" makes a new object, every assignment
\* changes the object it is made on
RECURSIVE HSetKeys(_, _, _, _)
HSetKeys(h, current, keys, value) ==
    IF Len(keys) = 1
    THEN [h EXCEPT ![current] = DictSet(@, keys[1], value)]
    ELSE IF Head(keys) \notin DOMAIN h[current] \/ ~IsDict(h[current][Head(keys)])
    THEN HSetKeys(Append([h EXCEPT ![current] = DictSet(@, Head(keys), Ref(Len(h) + 1))],
                         <<>>),
                  Len(h) + 1, Tail(keys), value)
    ELSE HSetKeys(h, h[current][Head(keys)].addr, Tail(keys), value)

\* the loop of get, through the references
RECURSIVE HWalk(_, _, _, _)
HWalk(h, value, keys, default) ==
    IF keys = <<>> THEN value
    ELSE IF IsDict(value) /\ Head(keys) \in DOMAIN h[value.addr]
         THEN HWalk(h, h[value.addr][Head(keys)], Tail(keys), default)
         ELSE default

\* get(key_path, default): a value that is not a dict, or a reference
HGetValue(h, self, key_path, default) == HWalk(h, Ref(self), Split(key_path), default)

K_k == <<"k">>
K_w == <<"w">>
P_x == <<"x">>
P_y == <<"y">>
P_x_k == <<"x", ".", "k">>
P_x_b == <<"x", ".", "b">>
P_y_k == <<"y", ".", "k">>

\* where the caller stores the dict it holds, and where it stores new values
HeldPaths == {P_x, P_y}
NewPaths == {P_a_b, P_x_k, P_x}
NewValues == {VInt(2), VDict(K_c :> VInt(1))}
ReadPaths == {P_a, P_a_b, P_x, P_x_b}
ReadDefaults == {VStr(S_default)}

\* Config(config_file) in an empty environment
InitHeap ==
    /\ config_file = SmallFile
    /\ env_prefix = NoPrefix
    /\ environ = <<>>
    /\ InitObject

\* __init__: the decoder builds the objects of the tree, and the loop of
\* _apply_env_overrides finds no entry
HLoaded(r, a) ==
    /\ error' = r.raised
    /\ config_data' = r.data
    /\ pc' = IF r.raised # NoError THEN "failed" ELSE "ready"
    /\ heap' = IF r.raised # NoError THEN heap ELSE a.heap
    /\ held' = IF r.raised # NoError THEN held ELSE [held EXCEPT !.self = a.slot.addr]

HConstruct ==
    /\ pc = "new"
    /\ environ = <<>>
    /\ IsDict(config_file.decoded)
    /\ HLoaded(LoadConfig(config_file), Alloc(heap, config_file.decoded))
    /\ UNCHANGED <<config_file, env_prefix, environ, pending, setcalls, last, nsets>>

\* the state after _set_nested_value(key_path, value) gave the heap h
HStored(h, key_path, arg) ==
    /\ heap' = h
    /\ config_data' = View(h, Ref(held.self))
    /\ last' = [op |-> "set", path |-> key_path, arg |-> arg, result |-> None,
                raised |-> "none"]

\* config.set(key_path, value) with a new value: r is what building it gave
HSetNew(key_path, value, r) ==
    HStored(HSetKeys(r.heap, held.self, Split(key_path), r.slot), key_path, value)

\* config.set(key_path, d), d being the dict the caller holds, or
\* config.set(key_path, value) with a value built for the call
HSet ==
    /\ pc = "ready"
    /\ nsets < MaxSets
    /\ \/ /\ held.d # 0
          /\ \E key_path \in HeldPaths :
                 HStored(HSetKeys(heap, held.self, Split(key_path), Ref(held.d)),
                         key_path, View(heap, Ref(held.d)))
       \/ \E key_path \in NewPaths, value \in NewValues :
              HSetNew(key_path, value, Alloc(heap, value))
    /\ nsets' = nsets + 1
    /\ UNCHANGED <<pc, config_file, env_prefix, environ, pending, error, setcalls, held>>

\* the state after get(key_path, default) gave the slot r; the caller keeps
\* the dict it is given, or not (d = config.get(key_path))
HGot(key_path, default, r) ==
    /\ last' = [op |-> "get", path |-> key_path, arg |-> default,
                result |-> View(heap, r), raised |-> "none"]
    /\ \/ held' = held
       \/ IsDict(r) /\ held' = [held EXCEPT !.d = r.addr]

\* config.get(key_path, default)
HGet ==
    /\ pc = "ready"
    /\ \E key_path \in ReadPaths, default \in ReadDefaults :
         HGot(key_path, default, HGetValue(heap, held.self, key_path, default))
    /\ UNCHANGED <<pc, config_file, env_prefix, environ, pending, config_data, error,
                   setcalls, nsets, heap>>

\* a get_all that returns dict(self.config_data), a copy of the root
HGetAllCopy ==
    /\ pc = "ready"
    /\ held.snap = 0
    /\ heap' = Append(heap, heap[held.self])
    /\ held' = [held EXCEPT !.snap = Len(heap) + 1]
    /\ last' = [op |-> "get_all", path |-> <<>>, arg |-> None,
                result |-> View(heap, Ref(held.self)), raised |-> "none"]
    /\ UNCHANGED <<pc, config_file, env_prefix, environ, pending, config_data, error,
                   setcalls, nsets>>

\* s = config.get_all()
HGetAll ==
    /\ pc = "ready"
    /\ held.snap = 0
    /\ held' = [held EXCEPT !.snap = held.self]
    /\ last' = [op |-> "get_all", path |-> <<>>, arg |-> None,
                result |-> View(heap, Ref(held.self)), raised |-> "none"]
    /\ UNCHANGED <<pc, config_file, env_prefix, environ, pending, config_data, error,
                   setcalls, nsets, heap>>

\* the caller builds a dict: d = {"c": 1}
CallerDict ==
    /\ pc = "ready"
    /\ held.d = 0
    /\ heap' = Append(heap, K_c :> VInt(1))
    /\ held' = [held EXCEPT !.d = Len(heap) + 1]
    /\ UNCHANGED <<pc, config_file, env_prefix, environ, pending, config_data, error,
                   setcalls, last, nsets>>

\* the caller changes what get_all gave it: s["w"] = 7
CallerMutate ==
    /\ pc = "ready"
    /\ held.snap # 0
    /\ heap' = [heap EXCEPT ![held.snap] = DictSet(@, K_w, VInt(7))]
    /\ config_data' = View(heap', Ref(held.self))
    /\ UNCHANGED <<pc, config_file, env_prefix, environ, pending, error, setcalls, last,
                   nsets, held>>

NextHeap == HConstruct \/ HSet \/ HGet \/ HGetAll \/ CallerDict \/ CallerMutate

SpecHeap == InitHeap /\ [][NextHeap]_vars

(***************************************************************************)
(* Notions the properties are stated with.                                 *)
(***************************************************************************)
\* a default that no stored value equals
Missing == [kind |-> "missing"]

\* the segment sequence keys resolves in data: every segment is a key of
\* the mapping reached so far
RECURSIVE Resolves(_, _)
Resolves(data, keys) ==
    \/ keys = <<>>
    \/ /\ IsDict(data)
       /\ Head(keys) \in DOMAIN data.val
       /\ Resolves(data.val[Head(keys)], Tail(keys))

\* the value stored at a segment sequence that resolves
RECURSIVE Stored(_, _)
Stored(data, keys) ==
    IF keys = <<>> THEN data ELSE Stored(data.val[Head(keys)], Tail(keys))

\* p is a prefix of q, as segment sequences
IsPrefix(p, q) == Len(p) <= Len(q) /\ SubSeq(q, 1, Len(p)) = p

\* p and q are equal, or one is a prefix of the other
Related(p, q) == IsPrefix(p, q) \/ IsPrefix(q, p)

\* every segment sequence that resolves in data
RECURSIVE AllPaths(_)
AllPaths(data) ==
    IF ~IsDict(data) THEN {}
    ELSE UNION {{<<k>>} \cup {<<k>> \o q : q \in AllPaths(data.val[k])} : k \in DOMAIN data.val}

(***************************************************************************)
(* C1.  After set(p, v) on a tree whose root is a mapping, get(p) returns  *)
(* v, for every path (empty segments included) and every kind of value.    *)
(***************************************************************************)
C1_SetThenGet ==
    (last.op = "set" /\ IsDict(config_data)) =>
        /\ last.raised = "none"
        /\ GetValue(config_data, last.path, Missing) = last.arg

\* a mapping was stored under a path with an empty segment
C1_Witness ==
    /\ last.op = "set"
    /\ last.path = P_a__b
    /\ IsDict(last.arg)
    /\ GetValue(config_data, P_a__b, Missing) = last.arg

(***************************************************************************)
(* C6.  get(p, d) on a path that does not resolve returns d and raises     *)
(* nothing; keys match exactly.                                            *)
(***************************************************************************)
C6_GetDefault ==
    (last.op = "get" /\ ~Resolves(config_data, Split(last.path))) =>
        last.result = last.arg /\ last.raised = "none"

\* a scalar or a sequence stands at a.b, a.b.c was asked for with a default
C6_Witness ==
    /\ last.op = "get"
    /\ last.path = P_a_b_c
    /\ Resolves(config_data, <<K_a, K_b>>)
    /\ ~IsDict(Stored(config_data, <<K_a, K_b>>))
    /\ last.arg = VStr(S_default)
    /\ last.result = VStr(S_default)

(***************************************************************************)
(* C7.  config[p] raises KeyError exactly when p does not resolve, and     *)
(* returns the stored value whenever p resolves.                           *)
(***************************************************************************)
C7_StrictAccess ==
    last.op = "getitem" =>
        IF Resolves(config_data, Split(last.path))
        THEN last.raised = "none" /\ last.result = Stored(config_data, Split(last.path))
        ELSE last.raised = "KeyError"

(***************************************************************************)
(* C8.  set bends the structure to its path: along the path an existing    *)
(* mapping is descended into (its other keys stay), anything else is       *)
(* replaced by a fresh mapping; so set("a.b.c", 1) then set("a.b", "x")    *)
(* leaves a.b = "x" and a.b.c unresolved, and the two calls the other way  *)
(* round leave a.b = {c: 1}.                                               *)
(***************************************************************************)
\* the step from data to after by set(keys, .) treats prefix 1..i as claimed
BendsAt(data, after, keys, i) ==
    LET q == SubSeq(keys, 1, i)
    IN  /\ Resolves(after, q)
        /\ IsDict(Stored(after, q))
        /\ IF Resolves(data, q) /\ IsDict(Stored(data, q))
           THEN /\ DOMAIN Stored(after, q).val = DOMAIN Stored(data, q).val \cup {keys[i + 1]}
                /\ \A k \in DOMAIN Stored(data, q).val \ {keys[i + 1]} :
                       Stored(after, q).val[k] = Stored(data, q).val[k]
           ELSE DOMAIN Stored(after, q).val = {keys[i + 1]}

IsSet(call, key_path, value) ==
    call.op = "set" /\ call.path = key_path /\ call.arg = value

C8_SetBends ==
    [][(nsets' = nsets + 1 /\ IsDict(config_data)) =>
         /\ \A i \in 1..(Len(Split(last'.path)) - 1) :
                BendsAt(config_data, config_data', Split(last'.path), i)
         /\ (IsSet(last, P_a_b_c, VInt(1)) /\ IsSet(last', P_a_b, VStr(S_x))) =>
                /\ GetValue(config_data', P_a_b, Missing) = VStr(S_x)
                /\ GetValue(config_data', P_a_b_c, Missing) = Missing
         /\ (IsSet(last, P_a_b, VStr(S_x)) /\ IsSet(last', P_a_b_c, VInt(1))) =>
                GetValue(config_data', P_a_b, Missing) = VDict(K_c :> VInt(1))
      ]_vars

\* the second call of the second scenario has replaced the text at a.b
C8_Witness ==
    /\ nsets = 2
    /\ IsSet(last, P_a_b_c, VInt(1))
    /\ GetValue(config_data, P_a_b, Missing) = VDict(K_c :> VInt(1))
    /\ GetValue(config_data, P_a, Missing) = VDict(K_b :> VDict(K_c :> VInt(1)))

(***************************************************************************)
(* Notions about the overlay.                                              *)
(***************************************************************************)
\* the path _apply_env_overrides derives from a variable name
PathOf(env_name) == DerivePath(ConfigKey(env_prefix, env_name))

\* the entries the prefix lets through
Passing == {n \in DOMAIN environ : ~Skipped(env_prefix, n)}

\* the entries the prefix lets through and that derive a path
Deriving == {n \in Passing : PathOf(n) # <<>>}

\* the derived path of n is neither equal to, a prefix of, nor an extension
\* of the derived path of another entry
Independent(n) ==
    \A m \in Passing \ {n} : ~Related(Split(PathOf(n)), Split(PathOf(m)))

\* the file-sourced paths that no derived path equals, prefixes or extends
Untouched ==
    {q \in AllPaths(config_file.decoded) :
        \A n \in Passing : ~Related(q, Split(PathOf(n)))}

\* data after the calls of a sequence of recorded _set_nested_value calls
RECURSIVE Replay(_, _)
Replay(data, calls) ==
    IF calls = <<>> THEN data
    ELSE Replay(SetNestedValue(data, Head(calls).path, Head(calls).value).data, Tail(calls))

TestEnviron == (N_APP_PORT :> R_9000) @@ (N_DATABASE_HOST :> R_host)

(***************************************************************************)
(* C2.  Environment overrides take precedence over file values: after      *)
(* construction get(p) is the typed value of every entry that passes       *)
(* filtering and whose derived path p is independent of the other entries' *)
(* paths, and every file-sourced path unrelated to all derived paths keeps *)
(* its file value.  As stated: for every entry that passes filtering       *)
(* (checked on the files whose top-level value is a mapping).              *)
(***************************************************************************)
C2_EnvOverridesFile_AsStated ==
    (pc = "ready" /\ IsDict(config_file.decoded)) =>
        /\ \A n \in Passing :
               Independent(n) =>
                   GetValue(config_data, PathOf(n), Missing) = ParsedValue(environ[n])
        /\ \A q \in Untouched : Walk(config_data, q, Missing) = Stored(config_file.decoded, q)

\* C2, amended: for every entry that passes filtering and derives a
\* non-empty path; with the example of the test suite.
C2_EnvOverridesFile ==
    pc = "ready" =>
        /\ \A n \in Deriving :
               Independent(n) =>
                   GetValue(config_data, PathOf(n), Missing) = ParsedValue(environ[n])
        /\ \A q \in Untouched : Walk(config_data, q, Missing) = Stored(config_file.decoded, q)
        /\ (config_file = AppFile /\ env_prefix = NoPrefix /\ environ = TestEnviron) =>
               /\ GetValue(config_data, P_app_port, Missing) = VInt(9000)
               /\ GetValue(config_data, P_app_debug, Missing) = VBool(TRUE)
               /\ GetValue(config_data, P_database_host, Missing) = VStr(R_host)

\* the example: both variables have overridden what the file defined
C2_Witness ==
    /\ pc = "ready"
    /\ config_file = AppFile
    /\ environ = TestEnviron
    /\ Deriving = {N_APP_PORT, N_DATABASE_HOST}
    /\ GetValue(config_data, P_app_port, Missing) = VInt(9000)
    /\ GetValue(config_data, P_database_host, Missing) = VStr(R_host)

(***************************************************************************)
(* C3.  The derived path is the lower-cased name with "__" and then "_"    *)
(* replaced by ".": DATABASE_HOST and DATABASE__HOST both give             *)
(* database.host, and X_Y and X__Y give the same path x.y for all segment  *)
(* names X and Y.                                                          *)
(***************************************************************************)
SegmentNames ==
    {<<"A", "P", "P">>, <<"P", "O", "R", "T">>, <<"D", "E", "B", "U", "G">>,
     <<"D", "A", "T", "A", "B", "A", "S", "E">>, <<"H", "O", "S", "T">>,
     <<"m", "y", "a", "p", "p">>, <<"M", "Y", "A", "P", "P">>}

C3_DerivedPath ==
    \A i \in DOMAIN setcalls :
        LET key == ConfigKey(env_prefix, setcalls[i].name)
        IN  /\ key \in {N_DATABASE_HOST, N_DATABASE__HOST} =>
                   setcalls[i].path = P_database_host
            /\ \A X \in SegmentNames, Y \in SegmentNames :
                   key \in {X \o <<"_">> \o Y, X \o <<"_", "_">> \o Y} =>
                       setcalls[i].path = Lower(X) \o <<".">> \o Lower(Y)

\* both spellings were applied and gave the same path
C3_Witness ==
    \E i \in DOMAIN setcalls, j \in DOMAIN setcalls :
        /\ setcalls[i].name = N_DATABASE_HOST
        /\ setcalls[j].name = N_DATABASE__HOST
        /\ setcalls[i].path = setcalls[j].path

(***************************************************************************)
(* C4.  The value stored for an entry is the JSON value of its raw text    *)
(* when the raw text is valid JSON, and the raw text itself otherwise.     *)
(***************************************************************************)
\* the JSON reading (RFC 8259) of the raw texts of the model; the texts that
\* are no JSON text stay as they are
JsonValueOf(raw) ==
    CASE raw = R_9000   -> VInt(9000)
      [] raw = R_8000   -> VInt(8000)
      [] raw = R_2      -> VInt(2)
      [] raw = R_15     -> VInt(15)
      [] raw = R_padded -> VInt(7)
      [] raw = R_float  -> VFloat(15, -1)
      [] raw = R_true   -> VBool(TRUE)
      [] raw = R_false  -> VBool(FALSE)
      [] raw = R_null   -> None
      [] raw = R_str    -> VStr(<<"s">>)
      [] raw = R_list   -> VList(<<VStr(<<"a">>), VStr(<<"b">>)>>)
      [] raw = R_obj    -> VDict(K_port :> VInt(1))
      [] raw = R_nested -> VList(<<VList(<<VInt(1)>>)>>)
      [] OTHER          -> VStr(raw)

C4_TypedValue ==
    pc \in {"overlay", "ready"} =>
        \A i \in DOMAIN setcalls :
            setcalls[i].value = JsonValueOf(environ[setcalls[i].name])

(***************************************************************************)
(* C5.  With a prefix set, an entry whose name does not start with the     *)
(* prefix causes no set call and no change to the tree, and one that does  *)
(* has that leading prefix removed before derivation: with MYAPP_,         *)
(* MYAPP_APP_PORT=9000 sets app.port to 9000 and APP_PORT=8000 is ignored, *)
(* in whatever order the entries are processed.                            *)
(***************************************************************************)
PrefixEnviron == (N_MYAPP_APP_PORT :> R_9000) @@ (N_APP_PORT :> R_8000)

C5_PrefixFilter ==
    /\ env_prefix # NoPrefix =>
           \A i \in DOMAIN setcalls :
               /\ setcalls[i].name
                      = env_prefix \o Drop(setcalls[i].name, Len(env_prefix))
               /\ setcalls[i].path
                      = DerivePath(Drop(setcalls[i].name, Len(env_prefix)))
    /\ pc \in {"overlay", "ready"} =>
           config_data = Replay(config_file.decoded, setcalls)
    /\ (pc = "ready" /\ env_prefix = Prefix_MYAPP /\ environ = PrefixEnviron) =>
           /\ Len(setcalls) = 1
           /\ setcalls[1].name = N_MYAPP_APP_PORT
           /\ setcalls[1].path = P_app_port
           /\ GetValue(config_data, P_app_port, Missing) = VInt(9000)

\* the example of the test suite
C5_Witness ==
    /\ pc = "ready"
    /\ env_prefix = Prefix_MYAPP
    /\ environ = PrefixEnviron
    /\ config_file = AppFile
    /\ pending = {}
    /\ Len(setcalls) = 1
    /\ GetValue(config_data, P_app_port, Missing) = VInt(9000)

(***************************************************************************)
(* C9.  The root of the tree of a constructed Config is a mapping, and     *)
(* construction from a file whose top-level value is not a mapping fails.  *)
(***************************************************************************)
C9_RootIsMapping ==
    pc = "ready" => IsDict(config_data) /\ IsDict(config_file.decoded)

(***************************************************************************)
(* C10.  The overlay only adds or overwrites: every path that resolved     *)
(* before the overlay still resolves after it.  As stated: unless an entry *)
(* derives that very path (checked on the environments whose values are    *)
(* all finite, so that the trace owes nothing to the constants of C4).     *)
(***************************************************************************)
C10_OverlayKeeps_AsStated ==
    (pc = "ready" /\ \A n \in DOMAIN environ : environ[n] # R_NaN) =>
        \A q \in AllPaths(config_file.decoded) :
            (\A n \in Deriving : Split(PathOf(n)) # q) => Resolves(config_data, q)

\* C10, amended: unless an entry derives that path or a prefix of it.
C10_OverlayKeeps ==
    pc = "ready" =>
        \A q \in AllPaths(config_file.decoded) :
            (\A n \in Deriving : ~IsPrefix(Split(PathOf(n)), q)) => Resolves(config_data, q)

\* the overlay wrote app.port and app. (an empty segment) beside app.debug,
\* which still resolves
C10_Witness ==
    /\ pc = "ready"
    /\ config_file = AppFile
    /\ Deriving = {N_APP_PORT, N_APP_}
    /\ Len(setcalls) = 2
    /\ Resolves(config_data, <<K_app, K_debug>>)
    /\ Resolves(config_data, <<K_app, <<>>>>)

(***************************************************************************)
(* C11.  In an overlay that runs to its end, set is called exactly once    *)
(* for each entry that passes filtering and derives a non-empty path, and  *)
(* never for another entry; when two names derive the same path, the path  *)
(* holds the typed value of the one processed last (no later call having   *)
(* written the path, a prefix or an extension of it).                      *)
(***************************************************************************)
\* the calls the overlay made for the entry n
CallsFor(n) == {i \in DOMAIN setcalls : setcalls[i].name = n}

\* call j is the last one that wrote its path, a prefix or an extension of it
LastWriter(j) ==
    \A k \in (j + 1)..Len(setcalls) :
        ~Related(Split(setcalls[k].path), Split(setcalls[j].path))

C12_SetIdempotent ==
    [][(nsets' = nsets + 1 /\ IsDict(config_data)) =>
         /\ SetNestedValue(config_data', last'.path, last'.arg).data = config_data'
         /\ IsSet(last, last'.path, last'.arg) => config_data' = config_data
      ]_vars

\* two calls have been made and the tree is the one set("a.b.c", {c: 1}) gives
\* on the tree of the file
C12_Witness ==
    /\ nsets = 2
    /\ config_file = SmallFile
    /\ environ = <<>>
    /\ IsSet(last, P_a_b_c, VDict(K_c :> VInt(1)))
    /\ config_data = SetNestedValue(SmallTree, P_a_b_c, VDict(K_c :> VInt(1))).data
    /\ GetValue(config_data, P_a_b_c, Missing) = VDict(K_c :> VInt(1))

(***************************************************************************)
(* C13.  get(p, d) and config[p] are pure reads: the tree after the call   *)
(* is the tree before it, whether p resolves or not and whether config[p]  *)
(* raises or not.                                                          *)
(***************************************************************************)
C13_PureReads ==
    [][(pc = "ready" /\ last'.op \in {"get", "getitem"}) => config_data' = config_data]_vars

\* config["a.b.c"] has raised KeyError on the tree of the file, which is as
\* the file gave it
C13_Witness ==
    /\ last.op = "getitem"
    /\ last.path = P_a_b_c
    /\ last.raised = "KeyError"
    /\ ~Resolves(config_data, Split(P_a_b_c))
    /\ nsets = 0
    /\ environ = <<>>
    /\ config_data = SmallTree

(***************************************************************************)
(* C14.  get(p) called without a default (the default is then None) tells  *)
(* "not found" from "found, and the value is null": it returns the         *)
(* not-found indicator exactly when p does not resolve.                    *)
(***************************************************************************)
C14_NotFoundDistinct ==
    (last.op = "get" /\ last.arg = None) =>
        (last.result = None <=> ~Resolves(config_data, Split(last.path)))

(***************************************************************************)
(* C15.  On a tree whose root is a mapping the overlay fails for no entry: *)
(* it raises nothing, it stores every raw value that is not valid JSON as  *)
(* the raw text itself, and it reaches the end of the environment (checked *)
(* on the environments without the constants of C4).                       *)
(***************************************************************************)
\* the file loads, and the root of what it gives is a mapping
LoadsMapping == LoadConfig(config_file).raised = NoError /\ IsDict(config_file.decoded)

C15_OverlayNeverFails ==
    (LoadsMapping /\ \A n \in DOMAIN environ : environ[n] # R_NaN) =>
        /\ pc # "failed"
        /\ error = NoError
        /\ \A i \in DOMAIN setcalls :
               JsonValueOf(environ[setcalls[i].name]) = VStr(environ[setcalls[i].name])
                   => setcalls[i].value = VStr(environ[setcalls[i].name])
        /\ pc = "ready" => pending = {} /\ \A n \in Deriving : CallsFor(n) # {}

(***************************************************************************)
(* C16.  The three failures of construction differ in kind, the kind of an *)
(* error being the type of the exception: a missing file gives             *)
(* FileNotFoundError, and the exception of an unrecognised extension, that *)
(* of malformed content in a recognised format and that of a missing file  *)
(* are of three different types.                                           *)
(***************************************************************************)
Recognised(file) == Lower(file.ext) \in {ExtJson, ExtYaml, ExtYml, ExtToml}

\* the type of the exception construction raises for a file
KindFor(file) == LoadConfig(file).raised.type

C16_ErrorKinds ==
    pc = "failed" =>
        /\ ~config_file.exists =>
               /\ error.type = "FileNotFoundError"
               /\ error.type \notin {KindFor(TextFile), KindFor(MalformedFile)}
        /\ (config_file.exists /\ ~Recognised(config_file)) =>
               error.type \notin {KindFor(MissingFile), KindFor(MalformedFile)}
        /\ (config_file.exists /\ Recognised(config_file) /\ config_file.importable
              /\ ~config_file.wellformed) =>
               error.type \notin {KindFor(MissingFile), KindFor(TextFile)}

(***************************************************************************)
(* C17.  Construction on a path at which there is no file raises           *)
(* FileNotFoundError, whatever the extension and whatever decoder would be *)
(* missing, before a decoder has given self.config_data a value and before *)
(* an environment entry is processed; no object is produced.               *)
(***************************************************************************)
C17_MissingFile ==
    ~config_file.exists =>
        /\ pc \in {"new", "failed"}
        /\ pc = "failed" =>
               /\ error.type = "FileNotFoundError"
               /\ error.msg = <<"Configuration file not found">>
        /\ config_data = EmptyDict
        /\ pending = {}
        /\ setcalls = <<>>

\* construction has failed on a missing file of an unrecognised extension,
\* with variables set in the environment
C17_Witness ==
    /\ pc = "failed"
    /\ config_file = MissingTextFile
    /\ DOMAIN environ = {N_APP_PORT, N_DATABASE_HOST}
    /\ error.type = "FileNotFoundError"
    /\ setcalls = <<>>

KeysOf(x) == IF IsDict(x) THEN DOMAIN x.val ELSE {}

C19_SetNoMerge ==
    [][(nsets' = nsets + 1 /\ IsDict(config_data)) =>
         LET keys == Split(last'.path)
         IN  /\ GetValue(config_data', last'.path, Missing) = last'.arg
             /\ Resolves(config_data, keys) =>
                    \A k \in KeysOf(Stored(config_data, keys)) \ KeysOf(last'.arg) :
                        ~Resolves(config_data', Append(keys, k))
      ]_vars

\* "a" held {b: 1} in the file; after set("a", {c: 1}) it holds {c: 1} and
\* a.b does not resolve any more
C19_Witness ==
    /\ nsets = 1
    /\ config_file = SmallFile
    /\ environ = <<>>
    /\ IsSet(last, P_a, VDict(K_c :> VInt(1)))
    /\ GetValue(config_data, P_a, Missing) = VDict(K_c :> VInt(1))
    /\ ~Resolves(config_data, <<K_a, K_b>>)

(***************************************************************************)
(* C20.  Every path the overlay passes to _set_nested_value splits into    *)
(* non-empty segments, and the overlay creates no key equal to the empty   *)
(* text at any level of the tree, whatever underscores the names carry     *)
(* (checked on the files that load and give a mapping).                    *)
(***************************************************************************)
\* no segment of the segment sequence is the empty text
NoEmptySegment(keys) == \A j \in DOMAIN keys : keys[j] # <<>>

C20_NoEmptySegment ==
    (pc \in {"overlay", "ready"} /\ LoadsMapping) =>
        /\ \A i \in DOMAIN setcalls : NoEmptySegment(Split(setcalls[i].path))
        /\ \A q \in AllPaths(config_data) \ AllPaths(config_file.decoded) :
               NoEmptySegment(q)

(***************************************************************************)
(* C21.  An entry that passes filtering and derives the empty path (its    *)
(* name is empty, or it is the prefix itself) is skipped: the iteration on *)
(* it makes no call of _set_nested_value, leaves the tree as it is and     *)
(* raises nothing.                                                         *)
(***************************************************************************)
C21_EmptyPathSkipped ==
    [][(pc = "overlay"
          /\ \E n \in Passing \ Deriving : pending' = pending \ {n} /\ n \in pending) =>
         /\ setcalls' = setcalls
         /\ config_data' = config_data
         /\ pc' # "failed"
      ]_vars

\* with the prefix MYAPP_, the entries MYAPP_ and MYAPP_APP_PORT have been
\* processed: one call was made, for the second
C21_Witness ==
    /\ pc = "ready"
    /\ config_file = AppFile
    /\ env_prefix = Prefix_MYAPP
    /\ DOMAIN environ = {N_MYAPP_, N_MYAPP_APP_PORT}
    /\ Passing \ Deriving = {N_MYAPP_}
    /\ Len(setcalls) = 1
    /\ setcalls[1].name = N_MYAPP_APP_PORT
    /\ ~Resolves(config_data, <<(<<>>)>>)

(***************************************************************************)
(* C22.  Construction is the existence test, the decoder of the extension  *)
(* and then the overlay, and it is over before a call is made on the       *)
(* object: calls are made only on an object whose construction raised      *)
(* nothing and whose overlay has reached the end; the overlay starts from  *)
(* what the decoder gave; and once a step has failed nothing runs any      *)
(* more, neither a later step nor a call.                                  *)
(***************************************************************************)
C22_Constructed ==
    /\ (last # NoCall \/ nsets > 0) => (pc = "ready" /\ pending = {} /\ error = NoError)
    /\ (pc \in {"overlay", "ready"} /\ nsets = 0) =>
           /\ LoadConfig(config_file).raised = NoError
           /\ config_data = Replay(config_file.decoded, setcalls)
    /\ pc = "failed" =>
           /\ error # NoError
           /\ last = NoCall /\ nsets = 0
           /\ LoadConfig(config_file).raised # NoError =>
                  setcalls = <<>> /\ pending = {} /\ config_data = EmptyDict

C22_Sequence == [](C22_Constructed) /\ [][pc = "failed" => UNCHANGED vars]_vars

\* the overlay has processed its entry and a set call was then made
C22_Witness ==
    /\ pc = "ready"
    /\ config_file = SmallFile
    /\ environ = (N_A_B :> R_2)
    /\ Len(setcalls) = 1
    /\ pending = {}
    /\ nsets = 1
    /\ IsSet(last, P_a_b_c, VInt(1))

(***************************************************************************)
(* Notions about objects.                                                  *)
(***************************************************************************)
\* what get(key_path, default) returns, as a value
HGetView(h, self, key_path, default) == View(h, HGetValue(h, self, key_path, default))

\* the step is a call of set
IsSetStep == nsets' = nsets + 1 /\ last'.op = "set"

\* the step is the caller's assignment s["w"] = 7
IsMutateStep == held.snap # 0 /\ nsets' = nsets /\ heap' # heap /\ held' = held

\* key paths p and q diverge at some segment: they are not equal and
\* neither is a prefix of the other
Diverge(p, q) == ~Related(Split(p), Split(q))

P_w == <<"w">>
FramePaths == ReadPaths \cup HeldPaths \cup NewPaths \cup {P_y_k, P_a_b_c, P_n, P_w}

(***************************************************************************)
(* C23.  get_all returns the live root mapping, not a copy: in every state *)
(* after a snapshot s was obtained, s equals the current tree; a later     *)
(* set(p, v) is visible through s, and what the caller assigns in s is     *)
(* visible through get.                                                    *)
(***************************************************************************)
C23_SnapshotIsTree ==
    held.snap # 0 =>
        /\ View(heap, Ref(held.snap)) = View(heap, Ref(held.self))
        /\ View(heap, Ref(held.snap)) = config_data

C23_LiveRoot ==
    /\ [](C23_SnapshotIsTree)
    /\ [][/\ (held.snap # 0 /\ IsSetStep) =>
                HGetView(heap', held.snap, last'.path, Missing) = last'.arg
          /\ IsMutateStep =>
                /\ HGetView(heap', held.snap, P_w, Missing) = VInt(7)
                /\ HGetView(heap', held.self, P_w, Missing) = VInt(7)
         ]_vars

\* a snapshot was taken, then the caller assigned in it and set was called
C23_Witness ==
    /\ held.snap # 0
    /\ last.op = "set"
    /\ last.path = P_x_k
    /\ HGetView(heap, held.snap, P_x_k, Missing) = VInt(2)
    /\ HGetView(heap, held.self, P_w, Missing) = VInt(7)

(***************************************************************************)
(* C24.  set(p, v) leaves get(q, d) unchanged for every default d and      *)
(* every path q that diverges from p at some segment: the sibling keys of  *)
(* every mapping traversed along p keep their values, and a q that was     *)
(* unresolved before the call stays unresolved.                            *)
(***************************************************************************)
C24_SetFrame ==
    [][IsSetStep =>
         \A q \in FramePaths, default \in Defaults \cup {Missing} :
             Diverge(last'.path, q) =>
                 HGetView(heap', held.self, q, default) = HGetView(heap, held.self, q, default)
      ]_vars

\* the same, for the calls made while no dict of the tree is known by two
\* names or stored under two keys
C24_SetFrameUnshared ==
    [][(IsSetStep /\ held.d = 0) =>
         \A q \in FramePaths, default \in Defaults \cup {Missing} :
             Diverge(last'.path, q) =>
                 HGetView(heap', held.self, q, default) = HGetView(heap, held.self, q, default)
      ]_vars

(***************************************************************************)
(* Notions about the order of the overlay.                                 *)
(***************************************************************************)
\* the orders in which the loop can meet the entries of S
Orders(S) ==
    {o \in [1..Cardinality(S) -> S] :
        \A i, j \in 1..Cardinality(S) : o[i] = o[j] => i = j}

\* the tree after the iterations on the entries of order, one after the other
RECURSIVE OverlayIn(_, _)
OverlayIn(data, order) ==
    IF order = <<>> THEN data
    ELSE OverlayIn(OverlayEntry(data, env_prefix, Head(order), environ[Head(order)]).data,
                   Tail(order))

\* no two entries derive paths that are equal or of which one is a prefix
\* of the other
PairwiseUnrelated ==
    \A n, m \in Deriving : n # m => ~Related(Split(PathOf(n)), Split(PathOf(m)))

(***************************************************************************)
(* C25.  If no two entries that pass filtering derive paths that are equal *)
(* or of which one is a proper prefix of the other, the tree after the     *)
(* overlay is the same for every order in which the entries are processed: *)
(* whatever order the loop took, the tree it built is the tree every other *)
(* order builds.                                                           *)
(***************************************************************************)
C25_OrderFree ==
    (pc = "ready" /\ PairwiseUnrelated) =>
        \A order \in Orders(DOMAIN environ) :
            config_data = OverlayIn(config_file.decoded, order)

\* two entries under the same mapping of the file, the second one first
C25_Witness ==
    /\ pc = "ready"
    /\ config_file = AppFile
    /\ env_prefix = NoPrefix
    /\ environ = (N_APP_PORT :> R_9000) @@ (N_APP_DEBUG :> R_false)
    /\ PairwiseUnrelated
    /\ Len(setcalls) = 2
    /\ setcalls[1].name = N_APP_DEBUG
    /\ setcalls[2].name = N_APP_PORT
    /\ GetValue(config_data, P_app_port, Missing) = VInt(9000)
    /\ GetValue(config_data, P_app_debug, Missing) = VBool(FALSE)

(***************************************************************************)
(* Notions about the characters of a key.                                  *)
(***************************************************************************)
UpperAZ ==
    {"A", "B", "C", "D", "E", "F", "G", "H", "I", "J", "K", "L", "M", "N", "O", "P", "Q",
     "R", "S", "T", "U", "V", "W", "X", "Y", "Z"}

\* c.isupper(), over the characters of the model
IsUpper(c) == c \in UpperAZ \cup {DoubleStruckC}

P_security_secret_key ==
    <<"s", "e", "c", "u", "r", "i", "t", "y", ".", "s", "e", "c", "r", "e", "t", ".",
      "k", "e", "y">>
P_security_secret__key ==
    <<"s", "e", "c", "u", "r", "i", "t", "y", ".", "s", "e", "c", "r", "e", "t", "_",
      "k", "e", "y">>
P_database_pool_size ==
    <<"d", "a", "t", "a", "b", "a", "s", "e", ".", "p", "o", "o", "l", ".",
      "s", "i", "z", "e">>
P_database_pool__size ==
    <<"d", "a", "t", "a", "b", "a", "s", "e", ".", "p", "o", "o", "l", "_",
      "s", "i", "z", "e">>

\* what the two variables of the examples do: the dotted path is set and
\* the path with the underscore is not
ExampleNames ==
    \A i \in DOMAIN setcalls :
        /\ ConfigKey(env_prefix, setcalls[i].name) = N_SECURITY_SECRET_KEY =>
               /\ setcalls[i].path = P_security_secret_key
               /\ setcalls[i].path # P_security_secret__key
        /\ ConfigKey(env_prefix, setcalls[i].name) = N_DATABASE_POOL_SIZE =>
               /\ setcalls[i].path = P_database_pool_size
               /\ setcalls[i].path # P_database_pool__size

\* the paths with the underscore were not set: they resolve only if the
\* file defined them
ExamplePaths ==
    (pc \in {"overlay", "ready"} /\ LoadsMapping) =>
        \A q \in {P_security_secret__key, P_database_pool__size} :
            Resolves(config_data, Split(q)) => Resolves(config_file.decoded, Split(q))

====
